---- MODULE Spec2Model ----
(***************************************************************************)
(* Model of autotest/gdrivers/arg.py: the ARG raster fixtures (pack,       *)
(* encode, the format table, the JSON sidecar template and its defaults)   *)
(* and the driver operations the tests call on them (decode of the binary  *)
(* payload, parse of the sidecar, the nodata query, the geotransform).     *)
(*                                                                         *)
(* Python integers are unbounded and the 32 and 64 bit formats do not fit  *)
(* machine integers, so an integer value is a sign and a magnitude         *)
(* written as big-endian base-256 digits without leading zeros.            *)
(***************************************************************************)
EXTENDS Integers, Sequences, FiniteSets, TLC

VARIABLES pc, name, data, arg, cellCount, cells, mirror, err,
          noDataValue, meta, json, parsed, gt, edits, stray

vars == <<pc, name, data, arg, cellCount, cells, mirror, err,
          noDataValue, meta, json, parsed, gt, edits, stray>>

----------------------------------------------------------------------------
(* Bounds of the model *)

\* longest value sequence built cell by cell (the fixed test data has 4 cells)
MaxLen == 3
\* most whole cells of an existing .arg file built pattern by pattern
MaxCells == 2
\* most single bytes appended to an .arg file outside the cell grid
MaxStray == 1
\* largest cellCount handed to decode
MaxCount == 4
\* most changes made to the default metadata and to its sidecar together
MaxEdits == 1
\* longest layer name set on a dataset
MaxName == 2

----------------------------------------------------------------------------
(* Unbounded integers as sign and big-endian base-256 magnitude *)

Zeros(n) == [i \in 1..n |-> 0]

RECURSIVE Norm(_)
\* the magnitude without its leading zero digits
Norm(d) == IF d # <<>> /\ d[1] = 0 THEN Norm(Tail(d)) ELSE d

Front(d) == SubSeq(d, 1, Len(d) - 1)

RECURSIVE Dec(_)
\* d - 1 for a magnitude d > 0, digit count kept
Dec(d) == IF d[Len(d)] > 0 THEN [d EXCEPT ![Len(d)] = @ - 1]
          ELSE Dec(Front(d)) \o <<255>>

RECURSIVE Inc(_)
\* d + 1, one digit longer on carry out
Inc(d) == IF d = <<>> THEN <<1>>
          ELSE IF d[Len(d)] < 255 THEN [d EXCEPT ![Len(d)] = @ + 1]
          ELSE Inc(Front(d)) \o <<0>>

\* the Python expression 1 << k
Shl1(k) == [neg |-> FALSE, mag |-> <<2 ^ (k % 8)>> \o Zeros(k \div 8)]

\* the Python expression -x
Neg(x) == [neg |-> (x.mag # <<>>) /\ ~x.neg, mag |-> x.mag]

\* the Python expression x - 1
MinusOne(x) == IF x.neg THEN [neg |-> TRUE, mag |-> Norm(Inc(x.mag))]
               ELSE IF x.mag = <<>> THEN [neg |-> TRUE, mag |-> <<1>>]
               ELSE [neg |-> FALSE, mag |-> Norm(Dec(x.mag))]

\* the Python expression x + 1
PlusOne(x) == Neg(MinusOne(Neg(x)))

\* a small integer literal, -65535..65535
PyInt(n) == LET a == IF n < 0 THEN -n ELSE n
          IN [neg |-> n < 0, mag |-> Norm(<<a \div 256, a % 256>>)]

\* Python's None: "no data"
None == [none |-> TRUE]

\* a Python float, named by its literal; a float read back from a file is
\* told by its bits, [bits |-> b]
Float(id) == [float |-> id]

NaN == Float("nan")

IsInt(v) == DOMAIN v = {"neg", "mag"}

----------------------------------------------------------------------------
(* The format table of test_arg_init *)

Names == {"int8", "int16", "int32", "int64",
          "uint8", "uint16", "uint32", "uint64",
          "float32", "float64"}

SignedNames == {"int8", "int16", "int32", "int64"}
UnsignedNames == {"uint8", "uint16", "uint32", "uint64"}
FloatNames == {"float32", "float64"}
IntNames == SignedNames \cup UnsignedNames

\* gdaltest.argTests[...]["formats"]: name -> struct format
Fmt(n) == CASE n = "int8" -> ">b" [] n = "int16" -> ">h"
            [] n = "int32" -> ">i" [] n = "int64" -> ">q"
            [] n = "uint8" -> ">B" [] n = "uint16" -> ">H"
            [] n = "uint32" -> ">I" [] n = "uint64" -> ">Q"
            [] n = "float32" -> ">f" [] n = "float64" -> ">d"

\* the table with the signed sentinels written -((1 << k) - 1)
Nodata_parenthesis(n) ==
    CASE n = "int8" -> Neg(MinusOne(Shl1(7)))
      [] n = "int16" -> Neg(MinusOne(Shl1(15)))
      [] n = "int32" -> Neg(MinusOne(Shl1(31)))
      [] n = "int64" -> Neg(MinusOne(Shl1(63)))
      [] n = "uint8" -> MinusOne(Shl1(8))
      [] n = "uint16" -> MinusOne(Shl1(16))
      [] n = "uint32" -> MinusOne(Shl1(32))
      [] n = "uint64" -> MinusOne(Shl1(64))
      [] n \in {"float32", "float64"} -> NaN

\* gdaltest.argTests[...]["formats"]: name -> nodata
Nodata(n) == CASE n = "int8" -> Neg(Shl1(7))
               [] n = "int16" -> Neg(Shl1(15))
               [] n = "int32" -> Neg(Shl1(31))
               [] n = "int64" -> Neg(Shl1(63))
               [] n = "uint8" -> MinusOne(Shl1(8))
               [] n = "uint16" -> MinusOne(Shl1(16))
               [] n = "uint32" -> MinusOne(Shl1(32))
               [] n = "uint64" -> MinusOne(Shl1(64))
               [] n = "float32" -> NaN
               [] n = "float64" -> NaN

\* gdaltest.argTests[...]["data"] of the group the format is in
Data(n) == IF n \in SignedNames THEN <<None, PyInt(2), PyInt(-3), PyInt(-4)>>
           ELSE IF n \in UnsignedNames THEN <<None, PyInt(2), PyInt(3), PyInt(4)>>
           ELSE <<None, Float("1.1"), Float("-20.02"), Float("300.003")>>

----------------------------------------------------------------------------
(* struct.pack with a big-endian standard-size format *)

\* struct.calcsize(fmt)
StructSize(fmt) == CASE fmt \in {">b", ">B"} -> 1
                     [] fmt \in {">h", ">H"} -> 2
                     [] fmt \in {">i", ">I", ">f"} -> 4
                     [] fmt \in {">q", ">Q", ">d"} -> 8

StructSigned(fmt) == fmt \in {">b", ">h", ">i", ">q"}
StructFloat(fmt) == fmt \in {">f", ">d"}

\* the padding on the low-order side
PadRight(d, w) == d \o Zeros(w - Len(d))

PadLeft(d, w) == Zeros(w - Len(d)) \o d

Complement(d) == [i \in 1..Len(d) |-> 255 - d[i]]

\* the range test with the sign bit forgotten: any w-byte magnitude passes
FitsSignedMag_bytes(d, w) == Len(d) <= w

\* whether the magnitude d is below 2^(8w-1)
FitsSignedMag(d, w) == Len(d) < w \/ (Len(d) = w /\ d[1] < 128)

\* IEEE-754 big-endian bytes of the floats the tests use
FloatBytes(fmt, id) ==
    IF fmt = ">f"
    THEN CASE id = "nan" -> <<127, 192, 0, 0>>
           [] id = "1.1" -> <<63, 140, 204, 205>>
           [] id = "-20.02" -> <<193, 160, 40, 246>>
           [] id = "300.003" -> <<67, 150, 0, 98>>
    ELSE CASE id = "nan" -> <<127, 248, 0, 0, 0, 0, 0, 0>>
           [] id = "1.1" -> <<63, 241, 153, 153, 153, 153, 153, 154>>
           [] id = "-20.02" -> <<192, 52, 5, 30, 184, 81, 235, 133>>
           [] id = "300.003" -> <<64, 114, 192, 12, 73, 186, 94, 53>>

Packed(b) == [ok |-> TRUE, bytes |-> b]
\* struct.error raised
StructError == [ok |-> FALSE, bytes |-> <<>>]

\* struct.pack(fmt, value): the bytes, or struct.error when the value is not
\* of the format's kind or lies outside its range (struct never wraps)
struct_pack(fmt, value) ==
    LET w == StructSize(fmt) IN
    IF StructFloat(fmt)
    THEN IF DOMAIN value = {"float"} THEN Packed(FloatBytes(fmt, value.float))
         ELSE IF DOMAIN value = {"bits"} /\ Len(value.bits) = w
         THEN Packed(value.bits)
         ELSE StructError
    ELSE IF ~IsInt(value) THEN StructError
    ELSE IF ~value.neg
    THEN IF (IF StructSigned(fmt) THEN FitsSignedMag(value.mag, w)
             ELSE Len(value.mag) <= w)
         THEN Packed(PadLeft(value.mag, w))
         ELSE StructError
    ELSE LET m1 == Norm(Dec(value.mag)) IN
         IF StructSigned(fmt) /\ FitsSignedMag(m1, w)
         THEN Packed(Complement(PadLeft(m1, w)))
         ELSE StructError

----------------------------------------------------------------------------
(* pack and encode *)

\* pack with 0 written for an absent value
pack_zero(fmt, nodata, value) ==
    struct_pack(fmt, IF value = None THEN PyInt(0) ELSE value)

pack(fmt, nodata, value) ==
    struct_pack(fmt, IF value = None THEN nodata ELSE value)

RECURSIVE JoinReversed(_)
\* the chunks joined last to first
JoinReversed(chunks) == IF chunks = <<>> THEN <<>>
                        ELSE JoinReversed(Tail(chunks)) \o Head(chunks)

RECURSIVE Join(_)
\* "".encode("ascii").join(chunks)
Join(chunks) == IF chunks = <<>> THEN <<>>
                ELSE Head(chunks) \o Join(Tail(chunks))

\* encode with the chunks joined by a newline: "\n".encode("ascii").join
encode_newline(fmt, nodata, values) ==
    LET chunks == [i \in 1..Len(values) |-> pack(fmt, nodata, values[i])] IN
    IF \E i \in 1..Len(values) : ~chunks[i].ok THEN StructError
    ELSE Packed(Join([i \in 1..Len(values) |->
                         IF i = 1 THEN chunks[i].bytes
                         ELSE <<10>> \o chunks[i].bytes]))

\* encode(fmt, nodata, values): an exception of pack leaves the list
\* comprehension, so nothing is returned
encode(fmt, nodata, values) ==
    LET chunks == [i \in 1..Len(values) |-> pack(fmt, nodata, values[i])] IN
    IF \E i \in 1..Len(values) : ~chunks[i].ok THEN StructError
    ELSE Packed(Join([i \in 1..Len(values) |-> chunks[i].bytes]))

----------------------------------------------------------------------------
(* The driver's side of the payload: width, sentinel and decode *)

\* byte width of a data type
width(t) == CASE t \in {"int8", "uint8"} -> 1
              [] t \in {"int16", "uint16"} -> 2
              [] t \in {"int32", "uint32", "float32"} -> 4
              [] t \in {"int64", "uint64", "float64"} -> 8

\* bit count N of a data type
Bits(t) == 8 * width(t)

\* the fixed nodata sentinel of a data type: -(2^(N-1)) signed, 2^N - 1
\* unsigned, NaN floating
sentinel(t) == IF t \in SignedNames THEN Neg(Shl1(Bits(t) - 1))
               ELSE IF t \in UnsignedNames THEN MinusOne(Shl1(Bits(t)))
               ELSE NaN

\* the answer to "what is nodata": the sentinel, but 128 for int8
GetNoDataValue(t) == IF t = "int8" THEN PyInt(128) ELSE sentinel(t)

\* the number a cell's big-endian bytes stand for
CellValue(t, b) ==
    IF t \in UnsignedNames THEN [neg |-> FALSE, mag |-> Norm(b)]
    ELSE IF b[1] < 128 THEN [neg |-> FALSE, mag |-> Norm(b)]
    ELSE [neg |-> TRUE, mag |-> Norm(Inc(Complement(b)))]

\* whether a floating cell's bits are a NaN: exponent all ones, mantissa not 0
IsNaNBits(t, b) ==
    IF t = "float32"
    THEN b[1] % 128 = 127 /\ b[2] >= 128
         /\ (b[2] > 128 \/ \E i \in 3..4 : b[i] # 0)
    ELSE b[1] % 128 = 127 /\ b[2] >= 240
         /\ (b[2] > 240 \/ \E i \in 3..8 : b[i] # 0)

\* one decoded cell: absent when it is the sentinel (any NaN for floats); a
\* floating value is told by its bits
DecodeCell(t, b) ==
    IF t \in FloatNames
    THEN IF IsNaNBits(t, b) THEN None ELSE [bits |-> b]
    ELSE IF CellValue(t, b) = sentinel(t) THEN None ELSE CellValue(t, b)

Decoded(c) == [ok |-> TRUE, cells |-> c]
TruncatedDataError == [ok |-> FALSE, cells |-> <<>>]

\* decode that refuses only a length that is no multiple of n * width(t)
decode_multiple(t, buffer, n) ==
    IF (n = 0 /\ buffer # <<>>) \/ (n > 0 /\ Len(buffer) % (n * width(t)) # 0)
    THEN TruncatedDataError
    ELSE Decoded([i \in 1..n |->
             DecodeCell(t, SubSeq(buffer, (i - 1) * width(t) + 1, i * width(t)))])

\* decode(dataType, buffer, cellCount)
decode(t, buffer, n) ==
    IF Len(buffer) # n * width(t) THEN TruncatedDataError
    ELSE Decoded([i \in 1..n |->
             DecodeCell(t, SubSeq(buffer, (i - 1) * width(t) + 1, i * width(t)))])

----------------------------------------------------------------------------
(* The JSON sidecar: template, defaults, parse and geotransform *)

\* A float of the metadata is a whole number of 10^-7, one digit more than
\* the six decimals "%f" prints.
One == 10 ^ 7

\* the defaults with ymin and ymax exchanged
argDefaults_flipped(n) ==
    [fmt |-> <<"arg-", n>>, dt |-> n,
     xmin |-> 0, ymin |-> 2 * One, xmax |-> 2 * One, ymax |-> 0,
     width |-> One, height |-> One, rows |-> 2, cols |-> 2]

\* gdaltest.argDefaults, with the fmt and dt test_arg_init adds for a format;
\* a layer name is a sequence of pieces of text
argDefaults(n) ==
    [fmt |-> <<"arg-", n>>, dt |-> n,
     xmin |-> 0, ymin |-> 0, xmax |-> 2 * One, ymax |-> 2 * One,
     width |-> One, height |-> One, rows |-> 2, cols |-> 2]

\* the text a JSON string is written as, between its quotes
StrTok(raw) == [raw |-> raw]
\* a number written with six decimals: a whole number of 10^-6
FloatTok(k) == [micros |-> k]
\* a number written as an integer
IntTok(n) == [int |-> n]

\* "%f" % v: v rounded to six decimals
FormatF(v) == IF v >= 0 THEN FloatTok((v + 5) \div 10)
              ELSE FloatTok(-((-v + 5) \div 10))

\* "%d" % n
FormatD(n) == IntTok(n)

\* "%s" % s: the text as it is, nothing escaped
FormatS(s) == StrTok(s)

\* the template with the layer written as the name of the .arg file
argJsontpl_filename(m) ==
    [layer |-> FormatS(<<"arg-", m.dt>>), type |-> StrTok(<<"arg">>),
     datatype |-> FormatS(<<m.dt>>),
     xmin |-> FormatF(m.xmin), ymin |-> FormatF(m.ymin),
     xmax |-> FormatF(m.xmax), ymax |-> FormatF(m.ymax),
     cellwidth |-> FormatF(m.width), cellheight |-> FormatF(m.height),
     rows |-> FormatD(m.rows), cols |-> FormatD(m.cols)]

\* the template without its rows line
argJsontpl_norows(m) ==
    [layer |-> FormatS(m.fmt), type |-> StrTok(<<"arg">>),
     datatype |-> FormatS(<<m.dt>>),
     xmin |-> FormatF(m.xmin), ymin |-> FormatF(m.ymin),
     xmax |-> FormatF(m.xmax), ymax |-> FormatF(m.ymax),
     cellwidth |-> FormatF(m.width), cellheight |-> FormatF(m.height),
     cols |-> FormatD(m.cols)]

\* gdaltest.argJsontpl % meta
argJsontpl(m) ==
    [layer |-> FormatS(m.fmt), type |-> StrTok(<<"arg">>),
     datatype |-> FormatS(<<m.dt>>),
     xmin |-> FormatF(m.xmin), ymin |-> FormatF(m.ymin),
     xmax |-> FormatF(m.xmax), ymax |-> FormatF(m.ymax),
     cellwidth |-> FormatF(m.width), cellheight |-> FormatF(m.height),
     rows |-> FormatD(m.rows), cols |-> FormatD(m.cols)]

Keys == {"layer", "type", "datatype", "xmin", "ymin", "xmax", "ymax",
         "cellwidth", "cellheight", "rows", "cols"}
StringKeys == {"layer", "type", "datatype"}
FloatKeys == {"xmin", "ymin", "xmax", "ymax", "cellwidth", "cellheight"}
IntKeys == {"rows", "cols"}

Quote == "\""
Backslash == "\\"

RECURSIVE Unescape(_)
\* the text a JSON string stands for, read from what lies between its
\* quotes: a bare quote ends the string early, a backslash takes the next
\* character with it
Unescape(raw) ==
    IF raw = <<>> THEN [ok |-> TRUE, text |-> <<>>]
    ELSE IF Head(raw) = Quote THEN [ok |-> FALSE, text |-> <<>>]
    ELSE IF Head(raw) = Backslash
    THEN IF Len(raw) >= 2 /\ raw[2] \in {Quote, Backslash}
         THEN LET rest == Unescape(SubSeq(raw, 3, Len(raw))) IN
              [ok |-> rest.ok, text |-> <<raw[2]>> \o rest.text]
         ELSE [ok |-> FALSE, text |-> <<>>]
    ELSE LET rest == Unescape(Tail(raw)) IN
         [ok |-> rest.ok, text |-> <<Head(raw)>> \o rest.text]

IsStr(tok) == DOMAIN tok = {"raw"}
IsNum(tok) == DOMAIN tok = {"micros"} \/ DOMAIN tok = {"int"}

\* the float a number token stands for
NumValue(tok) == IF DOMAIN tok = {"micros"} THEN tok.micros * 10
                 ELSE tok.int * One

\* whether the document is a JSON object with every key of its kind
WellFormed(doc) ==
    /\ Keys \subseteq DOMAIN doc
    /\ \A k \in StringKeys : IsStr(doc[k]) /\ Unescape(doc[k].raw).ok
    /\ \A k \in FloatKeys : IsNum(doc[k])
    /\ \A k \in IntKeys : DOMAIN doc[k] = {"int"}

\* the datatype tag of a well-formed document
Tag(doc) == Unescape(doc.datatype.raw).text

Parsed(m) == [ok |-> TRUE, error |-> "none", meta |-> m]
ParseError(e) == [ok |-> FALSE, error |-> e, meta |-> <<>>]

\* parse(jsonText) -> GridMetadata
parse(doc) ==
    IF ~WellFormed(doc) THEN ParseError("MalformedMetadataError")
    ELSE IF ~(\E t \in Names : Tag(doc) = <<t>>)
    THEN ParseError("UnsupportedTypeError")
    ELSE Parsed([layerName |-> Unescape(doc.layer.raw).text,
                 dataType |-> Tag(doc)[1],
                 xmin |-> NumValue(doc.xmin), ymin |-> NumValue(doc.ymin),
                 xmax |-> NumValue(doc.xmax), ymax |-> NumValue(doc.ymax),
                 cellWidth |-> NumValue(doc.cellwidth),
                 cellHeight |-> NumValue(doc.cellheight),
                 rows |-> doc.rows.int, cols |-> doc.cols.int])

\* the six-term geotransform of a GridMetadata
GetGeoTransform(m) == <<m.xmin, m.cellWidth, 0, m.ymax, 0, -m.cellHeight>>

----------------------------------------------------------------------------
(* Inputs *)

\* the least and the greatest value of an integer type
TypeMin(n) == IF n \in SignedNames THEN Neg(Shl1(Bits(n) - 1)) ELSE PyInt(0)
TypeMax(n) == IF n \in SignedNames THEN MinusOne(Shl1(Bits(n) - 1))
              ELSE MinusOne(Shl1(Bits(n)))

\* the first values outside an integer type's range
OutOfRange(n) == {MinusOne(TypeMin(n)), PlusOne(TypeMax(n))}

\* the values a cell is given: the test data, the ends of the type's range
\* and the first values outside it
Candidates(n) ==
    IF n \in SignedNames
    THEN {None, PyInt(0), PyInt(2), PyInt(-3), PyInt(-4),
          TypeMin(n), TypeMax(n)} \cup OutOfRange(n)
    ELSE IF n \in UnsignedNames
    THEN {None, PyInt(0), PyInt(2), PyInt(3), PyInt(4),
          MinusOne(TypeMax(n)), TypeMax(n)} \cup OutOfRange(n)
    ELSE {None, NaN, Float("1.1"), Float("-20.02"), Float("300.003")}

Fill(b, w) == [i \in 1..w |-> b]

\* the cells an existing .arg file is made of
CellPatterns(n) ==
    LET w == width(n) IN
    {Fill(0, w), Fill(255, w),
     <<128>> \o Fill(0, w - 1), <<127>> \o Fill(255, w - 1),
     Fill(0, w - 1) \o <<2>>, Fill(255, w - 1) \o <<253>>}
    \cup (IF n = "float32" THEN {<<127, 128, 0, 0>>, <<255, 128, 0, 1>>}
          ELSE IF n = "float64"
          THEN {<<127, 240>> \o Fill(0, 6), <<255, 240>> \o Fill(0, 5) \o <<1>>}
          ELSE {})

StrayBytes == {128}

\* values a bound or cell size of the metadata is set to
BoundSample == {-12345670, 1, -12345676}
SizeSample == {One \div 2, 1, 12345674}
CountSample == {3}

\* pieces of text a layer name is made of
LayerPieces == {"ARG FTW", Quote, Backslash}

LayerNames == UNION {[1..k -> LayerPieces] : k \in 1..MaxName}

\* tags a foreign sidecar may carry besides the ten
OtherTags == {"float16", "complex64", ""}

----------------------------------------------------------------------------
(* State machine: one fixture per behaviour *)

NoMeta == [layerName |-> <<>>, dataType |-> "", xmin |-> 0, ymin |-> 0,
           xmax |-> 0, ymax |-> 0, cellWidth |-> 0, cellHeight |-> 0,
           rows |-> 0, cols |-> 0]

Init ==
    /\ pc = "start"
    /\ name \in Names
    /\ data = <<>>
    /\ arg = <<>>
    /\ cellCount = 0
    /\ cells = <<>>
    /\ mirror = <<>>
    /\ err = "none"
    /\ noDataValue = None
    /\ meta = argDefaults(name)
    /\ json = [k \in {} |-> 0]
    /\ parsed = NoMeta
    /\ gt = <<>>
    /\ edits = 0
    /\ stray = 0

\* test_arg_init: the .arg file of a format, written from the test data
WriteTestData ==
    /\ pc = "start"
    /\ LET r == encode(Fmt(name), Nodata(name), Data(name)) IN
       /\ data' = Data(name)
       /\ IF r.ok THEN arg' = r.bytes /\ pc' = "file" /\ err' = err
          ELSE arg' = arg /\ pc' = "failed" /\ err' = "struct.error"
    /\ UNCHANGED <<name, cellCount, cells, mirror, noDataValue, meta, json,
                   parsed, gt, edits, stray>>

\* one more cell value handed to encode
AppendValue(v) ==
    /\ pc \in {"start", "values"}
    /\ Len(data) < MaxLen
    /\ data' = Append(data, v)
    /\ pc' = "values"
    /\ UNCHANGED <<name, arg, cellCount, cells, mirror, err, noDataValue,
                   meta, json, parsed, gt, edits, stray>>

\* encode(fmt, nodata, values) and the write of what it returns
Encode ==
    /\ pc \in {"start", "values"}
    /\ LET r == encode(Fmt(name), Nodata(name), data) IN
       IF r.ok THEN arg' = r.bytes /\ pc' = "file" /\ err' = err
       ELSE arg' = arg /\ pc' = "failed" /\ err' = "struct.error"
    /\ UNCHANGED <<name, data, cellCount, cells, mirror, noDataValue, meta,
                   json, parsed, gt, edits, stray>>

\* an existing .arg file, one whole cell longer
AppendCell(b) ==
    /\ pc \in {"start", "bytes"}
    /\ Len(arg) < MaxCells * width(name)
    /\ arg' = arg \o b
    /\ pc' = "bytes"
    /\ UNCHANGED <<name, data, cellCount, cells, mirror, err, noDataValue,
                   meta, json, parsed, gt, edits, stray>>

\* an existing .arg file, one byte longer
AppendByte(b) ==
    /\ pc \in {"start", "bytes"}
    /\ stray < MaxStray
    /\ arg' = Append(arg, b)
    /\ stray' = stray + 1
    /\ pc' = "bytes"
    /\ UNCHANGED <<name, data, cellCount, cells, mirror, err, noDataValue,
                   meta, json, parsed, gt, edits>>

\* decode(dataType, buffer, cellCount) of the file
Decode(n) ==
    /\ pc \in {"file", "bytes"}
    /\ cellCount' = n
    /\ LET r == decode(name, arg, n) IN
       IF r.ok
       THEN /\ cells' = r.cells
            /\ pc' = (IF pc = "file" THEN "decoded" ELSE "read")
            /\ err' = err
       ELSE cells' = cells /\ pc' = "failed" /\ err' = "TruncatedDataError"
    /\ UNCHANGED <<name, data, arg, mirror, noDataValue, meta, json, parsed,
                   gt, edits, stray>>

\* test_arg_byteorder: the decoded cells written as a second .arg file
CreateCopy ==
    /\ pc \in {"decoded", "read"}
    /\ LET r == encode(Fmt(name), Nodata(name), cells) IN
       IF r.ok THEN mirror' = r.bytes /\ pc' = "copied" /\ err' = err
       ELSE mirror' = mirror /\ pc' = "failed" /\ err' = "struct.error"
    /\ UNCHANGED <<name, data, arg, cellCount, cells, noDataValue, meta,
                   json, parsed, gt, edits, stray>>

\* test_arg_nodata: the nodata value of the band of a written file
NoDataQuery ==
    /\ pc \in {"file", "decoded"}
    /\ noDataValue' = GetNoDataValue(name)
    /\ pc' = "nodata"
    /\ UNCHANGED <<name, data, arg, cellCount, cells, mirror, err, meta,
                   json, parsed, gt, edits, stray>>

\* a field of the metadata set before it is written
SetField(k, v) ==
    /\ pc \in {"start", "meta"}
    /\ edits < MaxEdits
    /\ meta[k] # v
    /\ meta' = [meta EXCEPT ![k] = v]
    /\ edits' = edits + 1
    /\ pc' = "meta"
    /\ UNCHANGED <<name, data, arg, cellCount, cells, mirror, err,
                   noDataValue, json, parsed, gt, stray>>

\* test_arg_init: the .json sidecar written from the template
WriteJson ==
    /\ pc \in {"start", "meta"}
    /\ json' = argJsontpl(meta)
    /\ pc' = "json"
    /\ UNCHANGED <<name, data, arg, cellCount, cells, mirror, err,
                   noDataValue, meta, parsed, gt, edits, stray>>

\* a sidecar that lacks a key
DropKey(k) ==
    /\ pc = "json"
    /\ edits < MaxEdits
    /\ k \in DOMAIN json
    /\ json' = [j \in DOMAIN json \ {k} |-> json[j]]
    /\ edits' = edits + 1
    /\ UNCHANGED <<pc, name, data, arg, cellCount, cells, mirror, err,
                   noDataValue, meta, parsed, gt, stray>>

\* a sidecar that holds a key of the wrong kind: a number where a string
\* belongs, a string where a number belongs
WrongKind(k) ==
    /\ pc = "json"
    /\ edits < MaxEdits
    /\ k \in DOMAIN json
    /\ json' = [json EXCEPT ![k] = IF IsStr(@) THEN IntTok(1)
                                   ELSE StrTok(<<"1">>)]
    /\ edits' = edits + 1
    /\ UNCHANGED <<pc, name, data, arg, cellCount, cells, mirror, err,
                   noDataValue, meta, parsed, gt, stray>>

\* a sidecar whose datatype is another tag
SetTag(t) ==
    /\ pc = "json"
    /\ edits < MaxEdits
    /\ "datatype" \in DOMAIN json
    /\ json' = [json EXCEPT !["datatype"] = StrTok(<<t>>)]
    /\ edits' = edits + 1
    /\ UNCHANGED <<pc, name, data, arg, cellCount, cells, mirror, err,
                   noDataValue, meta, parsed, gt, stray>>

\* parse(jsonText) of the sidecar
Parse ==
    /\ pc = "json"
    /\ LET r == parse(json) IN
       IF r.ok THEN parsed' = r.meta /\ pc' = "parsed" /\ err' = err
       ELSE parsed' = parsed /\ pc' = "failed" /\ err' = r.error
    /\ UNCHANGED <<name, data, arg, cellCount, cells, mirror, noDataValue,
                   meta, json, gt, edits, stray>>

\* test_arg_getgeotransform: the geotransform of the opened dataset
GeoTransform ==
    /\ pc = "parsed"
    /\ gt' = GetGeoTransform(parsed)
    /\ pc' = "opened"
    /\ UNCHANGED <<name, data, arg, cellCount, cells, mirror, err,
                   noDataValue, meta, json, parsed, edits, stray>>

Next ==
    \/ WriteTestData
    \/ \E v \in Candidates(name) : AppendValue(v)
    \/ Encode
    \/ \E b \in CellPatterns(name) : AppendCell(b)
    \/ \E b \in StrayBytes : AppendByte(b)
    \/ \E n \in 0..MaxCount : Decode(n)
    \/ CreateCopy
    \/ NoDataQuery
    \/ \E k \in {"xmin", "ymin", "xmax", "ymax"} :
          \E v \in BoundSample : SetField(k, v)
    \/ \E k \in {"width", "height"} : \E v \in SizeSample : SetField(k, v)
    \/ \E k \in {"rows", "cols"} : \E v \in CountSample : SetField(k, v)
    \/ \E v \in LayerNames : SetField("fmt", v)
    \/ WriteJson
    \/ \E k \in Keys : DropKey(k)
    \/ \E k \in Keys : WrongKind(k)
    \/ \E t \in OtherTags : SetTag(t)
    \/ Parse
    \/ GeoTransform

Spec == Init /\ [][Next]_vars

----------------------------------------------------------------------------
(* Properties of the codec *)

\* the bytes of the i-th cell of the .arg file
Slice(i) == SubSeq(arg, (i - 1) * width(name) + 1, i * width(name))

\* whether the value sequence holds a present value outside the type's range
HasOutOfRange == \E i \in 1..Len(data) : data[i] \in OutOfRange(name)

\* C1: values -> bytes -> values.  For every integer type, the cells decoded
\* from the encoded values are the values index by index, except that a
\* present value equal to the sentinel comes back absent; so the round trip
\* is the identity on sequences without a present sentinel.
C1_RoundTripValues ==
    (pc = "decoded" /\ name \in IntNames) =>
        /\ Len(cells) = Len(data)
        /\ \A i \in 1..Len(data) :
              cells[i] = IF data[i] = None \/ data[i] = sentinel(name)
                         THEN None ELSE data[i]
        /\ ((\A i \in 1..Len(data) : data[i] # sentinel(name)) => cells = data)

\* a present sentinel, an absent cell and an ordinary value of the widest
\* signed type, decoded
C1_Witness ==
    /\ pc = "decoded" /\ name = "int64"
    /\ data = <<sentinel("int64"), None, PyInt(-3)>>
    /\ cells = <<None, None, PyInt(-3)>>

\* C2: bytes -> values -> bytes.  For every integer type and every buffer
\* decode accepts, encoding the decoded cells gives the buffer back byte for
\* byte, sentinel patterns included, and that encode never fails.
C2_RoundTripBytes ==
    /\ (pc = "copied" /\ name \in IntNames) => mirror = arg
    /\ (pc = "failed" /\ err = "struct.error") => cells = <<>>

\* an existing int16 file that holds the sentinel pattern and -3, copied
C2_Witness ==
    /\ pc = "copied" /\ name = "int16" /\ data = <<>>
    /\ arg = <<128, 0, 255, 253>>
    /\ cells = <<None, PyInt(-3)>>
    /\ mirror = arg

\* C3: exact size.  For every data type the buffer encode returns for n
\* values has n * width(t) bytes, width 1, 2, 4 or 8; and the all-absent
\* sequence decodes to n absent cells.
C3_ExactSize ==
    /\ width(name) \in {1, 2, 4, 8}
    /\ pc = "file" => Len(arg) = Len(data) * width(name)
    /\ (pc = "decoded" /\ \A i \in 1..Len(data) : data[i] = None) =>
          /\ Len(cells) = Len(data)
          /\ \A i \in 1..Len(cells) : cells[i] = None

\* three absent float64 cells: 24 bytes, three absent cells back
C3_Witness ==
    /\ pc = "decoded" /\ name = "float64"
    /\ data = <<None, None, None>>
    /\ Len(arg) = 24
    /\ cells = <<None, None, None>>

\* C4: byte layout.  For every integer type the i-th group of width(t) bytes
\* is the big-endian two's-complement (signed) or binary (unsigned) form of
\* the i-th value, an absent value written as the sentinel, 80 00.. signed
\* and FF FF.. unsigned; int16 [None, 2, -3, -4] gives 80 00 00 02 FF FD FF
\* FC and uint8 [None, 2, 3, 4] gives FF 02 03 04.
C4_ByteLayout ==
    /\ (pc = "file" /\ name \in IntNames) =>
          \A i \in 1..Len(data) :
             /\ CellValue(name, Slice(i)) =
                   (IF data[i] = None THEN sentinel(name) ELSE data[i])
             /\ data[i] = None =>
                   Slice(i) = IF name \in SignedNames
                              THEN <<128>> \o Fill(0, width(name) - 1)
                              ELSE Fill(255, width(name))
    /\ (pc = "file" /\ name = "int16" /\ data = Data("int16")) =>
          arg = <<128, 0, 0, 2, 255, 253, 255, 252>>
    /\ (pc = "file" /\ name = "uint8" /\ data = Data("uint8")) =>
          arg = <<255, 2, 3, 4>>
    /\ (pc = "failed" /\ err = "struct.error") => data # Data(name)

\* the int16 test data written
C4_Witness ==
    /\ pc = "file" /\ name = "int16"
    /\ data = <<None, PyInt(2), PyInt(-3), PyInt(-4)>>
    /\ arg = <<128, 0, 0, 2, 255, 253, 255, 252>>

\* C5: int8 nodata duality.  The nodata query answers 128 for int8, while an
\* absent int8 cell is stored as the byte 0x80, the two's complement of
\* -128, and the byte 0x80 decodes to an absent cell; for every other integer
\* type the query answers the number encode substitutes.
C5_Int8Nodata ==
    /\ pc = "nodata" =>
          noDataValue = IF name = "int8" THEN PyInt(128) ELSE Nodata(name)
    /\ (pc \in {"file", "decoded", "nodata"} /\ name = "int8") =>
          \A i \in 1..Len(data) : data[i] = None => arg[i] = 128
    /\ (pc \in {"decoded", "read", "nodata"} /\ name = "int8") =>
          \A i \in 1..Len(cells) : arg[i] = 128 => cells[i] = None
    /\ CellValue("int8", <<128>>) = PyInt(-128)

\* the int8 file of the test data, decoded and asked for its nodata value
C5_Witness ==
    /\ pc = "nodata" /\ name = "int8"
    /\ data = Data("int8")
    /\ arg[1] = 128
    /\ cells # <<>> /\ cells[1] = None
    /\ noDataValue = PyInt(128)

\* C6: decode fails with TruncatedDataError, returning no cells, exactly when
\* the buffer's length differs from cellCount * width(t), shorter or longer;
\* when the lengths are equal it returns cellCount cells.
C6_Truncated ==
    /\ (pc = "failed" /\ err = "TruncatedDataError") =>
          Len(arg) # cellCount * width(name) /\ cells = <<>>
    /\ pc \in {"decoded", "read"} =>
          Len(arg) = cellCount * width(name) /\ Len(cells) = cellCount

\* a buffer of twice the asked length, a whole multiple of it, refused
C6_Witness ==
    /\ pc = "failed" /\ err = "TruncatedDataError"
    /\ cellCount = 1
    /\ Len(arg) = 2 * width(name)
    /\ cells = <<>>

\* C10: out-of-range input.  For every integer type, encode of a sequence
\* that holds a present value outside the type's range raises (struct.error
\* is the range error of the source) and returns no bytes, wherever the
\* value sits; a sequence within range is encoded.
C10_OutOfRange ==
    name \in IntNames =>
        /\ pc = "file" => ~HasOutOfRange
        /\ (pc = "failed" /\ err = "struct.error") =>
              HasOutOfRange /\ arg = <<>> /\ cells = <<>>

\* the offending value last, after two cells that would have been written
C10_Witness ==
    /\ pc = "failed" /\ err = "struct.error" /\ name = "uint64"
    /\ data = <<PyInt(2), None, PlusOne(TypeMax("uint64"))>>
    /\ arg = <<>>

----------------------------------------------------------------------------
(* Properties of the sidecar *)

\* the sidecar is the template's text for the metadata, nothing changed
NoDamage == json = argJsontpl(meta)

\* the sidecar has been handed to parse
AfterParse == pc \in {"parsed", "opened"}
              \/ (pc = "failed" /\ DOMAIN json # {})

\* a layer name with no double quote and no backslash
PlainName(s) == \A i \in 1..Len(s) : s[i] \notin {Quote, Backslash}

Abs(x) == IF x < 0 THEN -x ELSE x

\* p is v rounded to six decimals
Near6(p, v) == p % 10 = 0 /\ Abs(p - v) <= 5

SixDecimals(m) == \A k \in {"xmin", "ymin", "xmax", "ymax", "width", "height"} :
                     m[k] % 10 = 0

SameStrings == parsed.layerName = meta.fmt /\ parsed.dataType = meta.dt
SameCounts == parsed.rows = meta.rows /\ parsed.cols = meta.cols
SameFloats == /\ parsed.xmin = meta.xmin /\ parsed.ymin = meta.ymin
              /\ parsed.xmax = meta.xmax /\ parsed.ymax = meta.ymax
              /\ parsed.cellWidth = meta.width
              /\ parsed.cellHeight = meta.height

DefaultTransform == <<0, One, 0, 2 * One, 0, -One>>

\* C7: derived geotransform.  The geotransform of an opened dataset is
\* (xmin, cellWidth, 0, ymax, 0, -cellHeight); it is that of the defaults,
\* (0, 1, 0, 2, 0, -1), for all ten data types, and stays so whatever the
\* rows, cols, xmax, ymin and layer of the written metadata are set to.
C7_GeoTransform ==
    pc = "opened" =>
       /\ gt = <<parsed.xmin, parsed.cellWidth, 0, parsed.ymax, 0,
                 -parsed.cellHeight>>
       /\ (edits = 0 /\ name \in Names) => gt = DefaultTransform
       /\ (NoDamage /\ meta.xmin = 0 /\ meta.ymax = 2 * One
             /\ meta.width = One /\ meta.height = One) => gt = DefaultTransform

\* float64 metadata with rows set to 3: the transform of the defaults
C7_Witness ==
    /\ pc = "opened" /\ name = "float64"
    /\ meta.rows = 3
    /\ gt = <<0, One, 0, 2 * One, 0, -One>>

WrongKindIn(doc) ==
    \E k \in DOMAIN doc :
       \/ k \in StringKeys /\ ~IsStr(doc[k])
       \/ k \in FloatKeys \cup IntKeys /\ IsStr(doc[k])

\* C9: parse outcomes.  A sidecar with every key of its kind and one of the
\* ten tags is accepted, for each of the ten, rows and cols taken as they
\* are; one that lacks a key or holds one of the wrong kind fails with
\* MalformedMetadataError; one that is otherwise in order and carries
\* another tag fails with UnsupportedTypeError.
C9_ParseOutcomes ==
    AfterParse =>
       /\ (NoDamage /\ PlainName(meta.fmt)) =>
             /\ pc # "failed"
             /\ parsed.dataType = name
             /\ parsed.rows = meta.rows /\ parsed.cols = meta.cols
       /\ (~(Keys \subseteq DOMAIN json) \/ WrongKindIn(json)) =>
             pc = "failed" /\ err = "MalformedMetadataError"
       /\ (Keys \subseteq DOMAIN json /\ ~WrongKindIn(json)
             /\ PlainName(meta.fmt)
             /\ \E t \in OtherTags : json.datatype = StrTok(<<t>>)) =>
             pc = "failed" /\ err = "UnsupportedTypeError"

\* the sidecar without its rows key, refused
C9_Witness ==
    /\ pc = "failed" /\ err = "MalformedMetadataError"
    /\ DOMAIN json = Keys \ {"rows"}

====
